---- MODULE Spec2Model ----
(***************************************************************************)
(* A model of the kvs storage engine (src/src/lib.rs): an append-only      *)
(* command log kvs.db, an in-memory index from key to byte offset,         *)
(* recovery at open, set / get / remove, and log compaction through        *)
(* kvs.db.tmp; and of the command-line driver (src/src/main.rs).           *)
(*                                                                         *)
(* Files are sequences of bytes; offsets are 0-based byte positions as in  *)
(* the code.  Strings (keys, values) are sequences of bytes.               *)
(***************************************************************************)
EXTENDS Integers, Sequences, FiniteSets, TLC

\* ------------------------------------------------------------------ bounds

\* Number of set/remove calls in one behaviour.
MaxOps == 2

\* Number of failing I/O calls in one behaviour.
MaxFaults == 1

\* The directories the behaviours start from hold logs of up to this many
\* different lengths around the compaction threshold (see PriorLens).
PriorWindow == 3

\* ------------------------------------------------------- program constants

COMPACT_MODIFICATION_CT == 20

\* Capacity of the BufReader the code wraps the log handle in.
BUF_CAPACITY == 8192

\* Names of the two files of the directory.
DB == "kvs.db"
TMP == "kvs.db.tmp"

\* Keys "a", "b" and values "1", "22" as byte strings.
Keys == {<<97>>, <<98>>}
Values == {<<49>>, <<50, 50>>}

\* ------------------------------------------------------------ record codec

Min(a, b) == IF a < b THEN a ELSE b

\* LogEntry: the two variants, built as records.
SetEntry(k, v) == [kind |-> "Set", key |-> k, value |-> v]
RemoveEntry(k) == [kind |-> "Remove", key |-> k, value |-> <<>>]

\* The variant tags of LogEntry, in declaration order.
TagSet == 0
TagRemove == 1

\* u32, little endian.
LE32(n) ==
  <<n % 256, (n \div 256) % 256, (n \div 65536) % 256, (n \div 16777216) % 256>>

\* The u32 at byte offset p of bytes (p + 4 <= Len(bytes)).
ReadLE32(bytes, p) ==
  bytes[p + 1] + 256 * bytes[p + 2] + 65536 * bytes[p + 3]
    + 16777216 * bytes[p + 4]

\* A String: its length as u32, then its bytes.
EncodeString(s) == LE32(Len(s)) \o s

\* LogEntry::write_to_stream: tag, then the fields in order.
Encode(e) ==
  IF e.kind = "Set"
  THEN LE32(TagSet) \o EncodeString(e.key) \o EncodeString(e.value)
  ELSE LE32(TagRemove) \o EncodeString(e.key)

\* Reading a String at offset p: [ok, str, next]; ok is FALSE when the
\* stream ends before the string does.
DecodeString(bytes, p) ==
  IF p + 4 > Len(bytes)
  THEN [ok |-> FALSE, str |-> <<>>, next |-> p]
  ELSE LET n == ReadLE32(bytes, p)
       IN IF p + 4 + n > Len(bytes)
          THEN [ok |-> FALSE, str |-> <<>>, next |-> p]
          ELSE [ok |-> TRUE, str |-> SubSeq(bytes, p + 5, p + 4 + n),
                next |-> p + 4 + n]

Eof == [kind |-> "eof", key |-> <<>>, value |-> <<>>, next |-> 0]
Invalid == [kind |-> "invalid", key |-> <<>>, value |-> <<>>, next |-> 0]

\* The rest of a Set record once its key k has been read: the value v.
DecodeValue(k, v) ==
  IF ~v.ok THEN Eof
  ELSE [kind |-> "Set", key |-> k.str, value |-> v.str, next |-> v.next]

\* The rest of a record once its tag has been read: the key k, read at the
\* offset after the tag.
DecodeTagged(bytes, tag, k) ==
  IF tag \notin {TagSet, TagRemove} THEN Invalid
  ELSE IF ~k.ok THEN Eof
  ELSE IF tag = TagRemove
  THEN [kind |-> "Remove", key |-> k.str, value |-> <<>>, next |-> k.next]
  ELSE DecodeValue(k, DecodeString(bytes, k.next))

\* LogEntry::read_from_stream on a reader positioned at byte offset off.
\* kind is "Set" or "Remove" (next is the offset after the record), "eof"
\* when the stream ends before the record does (the error for which
\* is_eof() holds, at a record boundary or inside a record), "invalid" when
\* the tag names no variant.
Decode(bytes, off) ==
  IF off + 4 > Len(bytes) THEN Eof
  ELSE DecodeTagged(bytes, ReadLE32(bytes, off), DecodeString(bytes, off + 4))

\* ------------------------------------------------------------- file helpers

\* write(2) of data at position p of a file (p <= Len(bytes)): overwrites
\* what is there and extends the file; bytes beyond the data stay.
WriteAt(bytes, p, data) ==
  SubSeq(bytes, 1, p) \o data \o SubSeq(bytes, p + Len(data) + 1, Len(bytes))

\* The underlying position after a BufReader has served one decode at off:
\* it fills its buffer with up to BUF_CAPACITY bytes.
PosAfterRead(bytes, off) ==
  IF off >= Len(bytes) THEN off ELSE Min(off + BUF_CAPACITY, Len(bytes))

\* HashMap insert and remove on the index (a function on the live keys).
Insert(cache, k, o) == [x \in DOMAIN cache \cup {k} |-> IF x = k THEN o ELSE cache[x]]
Delete(cache, k) == [x \in DOMAIN cache \ {k} |-> cache[x]]

NoCache == [x \in {} |-> 0]

\* ---------------------------------------------------------------- recovery

RECURSIVE RecoverFrom(_, _, _, _)

\* RecoverEntry with a bug: a Remove record leaves its key in the index.
RecoverEntry_IgnoresRemove(bytes, off, cache, ct, entry) ==
  IF entry.kind = "eof"
  THEN [res |-> "Ok", cache |-> cache, ct |-> ct, pos |-> PosAfterRead(bytes, off)]
  ELSE IF entry.kind = "invalid"
  THEN [res |-> "LogParse", cache |-> cache, ct |-> ct, pos |-> Len(bytes)]
  ELSE IF entry.kind = "Set"
  THEN RecoverFrom(bytes, entry.next, Insert(cache, entry.key, off),
                   IF entry.key \in DOMAIN cache THEN ct + 1 ELSE ct)
  ELSE RecoverFrom(bytes, entry.next, cache, ct + 1)

\* One turn of the recovery loop of open: entry is what was decoded at off.
RecoverEntry(bytes, off, cache, ct, entry) ==
  IF entry.kind = "eof"
  THEN [res |-> "Ok", cache |-> cache, ct |-> ct, pos |-> PosAfterRead(bytes, off)]
  ELSE IF entry.kind = "invalid"
  THEN [res |-> "LogParse", cache |-> cache, ct |-> ct, pos |-> Len(bytes)]
  ELSE IF entry.kind = "Set"
  THEN RecoverFrom(bytes, entry.next, Insert(cache, entry.key, off),
                   IF entry.key \in DOMAIN cache THEN ct + 1 ELSE ct)
  ELSE RecoverFrom(bytes, entry.next, Delete(cache, entry.key), ct + 1)

\* The recovery loop of open: replay the log from offset off.
RecoverFrom(bytes, off, cache, ct) ==
  RecoverEntry(bytes, off, cache, ct, Decode(bytes, off))

\* -------------------------------------------------------------- compaction

\* The iteration orders of a HashMap over the keys S.
Orders(S) ==
  {f \in [1..Cardinality(S) -> S] : \A i, j \in DOMAIN f : f[i] = f[j] => i = j}

\* What a failing write leaves behind of data: nothing, or its first half.
CutModes == {"nothing", "half"}
Cut(data, mode) ==
  IF mode = "half" THEN SubSeq(data, 1, Len(data) \div 2) ELSE <<>>

RECURSIVE CompactLoop(_, _, _, _, _, _, _, _, _)

\* One turn of the for loop of maybe_compact, for key = order[i]: entry is
\* what was decoded at the key's offset, rpos the position of self.log_f
\* after that read, dropped the directory once the BufWriter of the
\* temporary file has written its pending bytes buf at wpos (which
\* tmp_log_w.seek does, and also the drop of the BufWriter on an early
\* return).
CompactEntry(order, i, rd, cache, wpos, buf, new_cache, entry, rpos, dropped) ==
  IF entry.kind \in {"eof", "invalid"} \/ entry.kind = "Remove"
     \/ entry.key # order[i]
  THEN [res |-> IF entry.kind \in {"eof", "invalid"} THEN "LogLookup"
                ELSE IF entry.kind = "Remove" THEN "LogEntryKindInvalid"
                ELSE "LogEntryKeyMismatch",
        files |-> dropped, wpos |-> wpos + Len(buf), buf |-> <<>>,
        new_cache |-> new_cache, rpos |-> rpos]
  ELSE CompactLoop(order, i + 1, dropped, rd, cache, wpos + Len(buf),
                   Encode(SetEntry(order[i], entry.value)),
                   Insert(new_cache, order[i], wpos + Len(buf)), rpos)

\* The for loop of maybe_compact over the live keys order[i..].  files is the
\* directory, rd the name of the file self.log_f refers to; the temporary
\* file is written through a BufWriter whose pending bytes are buf and whose
\* file position is wpos; rpos is the position of self.log_f.
CompactLoop(order, i, files, rd, cache, wpos, buf, new_cache, rpos) ==
  IF i > Len(order)
  THEN [res |-> "Ok", files |-> files, wpos |-> wpos, buf |-> buf,
        new_cache |-> new_cache, rpos |-> rpos]
  ELSE CompactEntry(order, i, rd, cache, wpos, buf, new_cache,
                    Decode(files[rd], cache[order[i]]),
                    PosAfterRead(files[rd], cache[order[i]]),
                    [files EXCEPT ![TMP] = WriteAt(@, wpos, buf)])

\* The faults of the I/O calls of maybe_compact.
CompactFaults == {"open", "flush", "sync", "rename"}

\* A file opened with create(true) and no truncate: the directory with the
\* file in it; an existing file keeps its bytes.
Created(fs, name) ==
  IF name \in DOMAIN fs THEN fs
  ELSE [n \in DOMAIN fs \cup {name} |-> IF n = name THEN <<>> ELSE fs[n]]

\* CompactFinish with a bug: after the rename the old index is kept.
CompactFinish_KeepsOldIndex(e, l, fault, mode) ==
  IF l.res # "Ok"
  THEN [eng |-> [e EXCEPT !.files = l.files, !.pos = l.rpos],
        res |-> l.res, rewrite |-> "failed"]
  ELSE IF fault \in {"flush", "sync", "rename"}
  THEN [eng |-> [e EXCEPT !.files = [l.files EXCEPT ![TMP] =
                                       WriteAt(@, l.wpos, l.buf)],
                          !.pos = l.rpos],
        res |-> IF fault = "flush" THEN "CompactionFlushFailed"
                ELSE IF fault = "sync" THEN "CompactionSyncFailed"
                ELSE "CompactionRenameFailed",
        rewrite |-> "failed"]
  ELSE [eng |-> [e EXCEPT !.files = [n \in {DB} |->
                                       WriteAt(l.files[TMP], l.wpos, l.buf)],
                          !.log_f = DB, !.pos = l.wpos + Len(l.buf)],
        res |-> "Ok", rewrite |-> "ok"]

\* maybe_compact after its for loop has ended as l: flush, sync_all, the
\* assignment of self.log_f, rename, the assignment of self.cache.
CompactFinish(e, l, fault, mode) ==
  IF l.res # "Ok"
  THEN [eng |-> [e EXCEPT !.files = l.files, !.pos = l.rpos],
        res |-> l.res, rewrite |-> "failed"]
  ELSE IF fault = "flush"
  THEN [eng |-> [e EXCEPT !.files = [l.files EXCEPT ![TMP] =
                                       WriteAt(@, l.wpos, Cut(l.buf, mode))],
                          !.pos = l.rpos],
        res |-> "CompactionFlushFailed", rewrite |-> "failed"]
  ELSE IF fault = "sync"
  THEN [eng |-> [e EXCEPT !.files = [l.files EXCEPT ![TMP] =
                                       WriteAt(@, l.wpos, l.buf)],
                          !.pos = l.rpos],
        res |-> "CompactionSyncFailed", rewrite |-> "failed"]
  ELSE IF fault = "rename"
  THEN \* self.log_f = tmp_log has already happened
       [eng |-> [e EXCEPT !.files = [l.files EXCEPT ![TMP] =
                                       WriteAt(@, l.wpos, l.buf)],
                          !.log_f = TMP, !.pos = l.wpos + Len(l.buf)],
        res |-> "CompactionRenameFailed", rewrite |-> "failed"]
  ELSE \* rename(kvs.db.tmp, kvs.db); self.cache = new_cache
       [eng |-> [e EXCEPT !.files = [n \in {DB} |->
                                       WriteAt(l.files[TMP], l.wpos, l.buf)],
                          !.log_f = DB, !.pos = l.wpos + Len(l.buf),
                          !.cache = l.new_cache],
        res |-> "Ok", rewrite |-> "ok"]

\* MaybeCompact with a bug: the threshold test is off by one.
MaybeCompact_ThresholdAbove(e, order, fault, mode) ==
  IF e.ct <= COMPACT_MODIFICATION_CT
  THEN [eng |-> e, res |-> "Ok", rewrite |-> "none"]
  ELSE IF fault = "open"
  THEN [eng |-> e, res |-> "OpenLog", rewrite |-> "failed"]
  ELSE CompactFinish(e, CompactLoop(order, 1, Created(e.files, TMP), e.log_f,
                                    e.cache, 0, <<>>, NoCache, e.pos),
                     fault, mode)

\* maybe_compact on the engine e = [files, log_f, pos, cache, ct], with the
\* HashMap iterating in order, the I/O call named fault failing ("none": no
\* call fails) and a failing flush leaving Cut(_, mode) behind.  rewrite tells
\* whether the rewrite ran: "none" (below the threshold), "ok", "failed".
MaybeCompact(e, order, fault, mode) ==
  IF e.ct < COMPACT_MODIFICATION_CT
  THEN [eng |-> e, res |-> "Ok", rewrite |-> "none"]
  ELSE IF fault = "open"
  THEN [eng |-> e, res |-> "OpenLog", rewrite |-> "failed"]
  ELSE CompactFinish(e, CompactLoop(order, 1, Created(e.files, TMP), e.log_f,
                                    e.cache, 0, <<>>, NoCache, e.pos),
                     fault, mode)

\* --------------------------------------------------------------------- get

\* get once the index has given the offset: entry is what was decoded there.
LookupEntry(key, entry, p) ==
  IF entry.kind \in {"eof", "invalid"}
  THEN [res |-> "LogLookup", val |-> <<>>, pos |-> p]
  ELSE IF entry.kind = "Remove"
  THEN [res |-> "LogEntryKindInvalid", val |-> <<>>, pos |-> p]
  ELSE IF entry.key # key
  THEN [res |-> "LogEntryKeyMismatch", val |-> <<>>, pos |-> p]
  ELSE [res |-> "Some", val |-> entry.value, pos |-> p]

\* The body of get on the engine e: [res, val, pos].  res is "Some" (val is
\* the value), "None", or the name of the error returned.
Lookup(e, key) ==
  IF key \notin DOMAIN e.cache
  THEN [res |-> "None", val |-> <<>>, pos |-> e.pos]
  ELSE LookupEntry(key, Decode(e.files[e.log_f], e.cache[key]),
                   PosAfterRead(e.files[e.log_f], e.cache[key]))

\* ------------------------------------------------------------------- state

VARIABLES
  files,      \* the directory: file name -> bytes
  pc,         \* "closed": no engine; "open": a KvStore exists
  log_f,      \* the name of the file the handle self.log_f refers to
  pos,        \* the file position of self.log_f
  cache,      \* self.cache: live key -> offset
  modification_ct,
  ret,        \* the last call and what it returned
  cli,        \* the last run of the command-line driver
  model,      \* reference map: key -> value, applying every set/remove whose
              \* record reached the log (the call returned Ok, or only its
              \* maybe_compact failed)
  written,    \* key -> v for the keys whose latest set/remove call was a
              \* set(key, v) that returned Ok
  clean,      \* no call on the current engine has returned an error
  pristine,   \* no failed call has changed the directory or an engine on it
  rewritten,  \* a compaction has rewritten the log under the current engine
  nops,       \* set/remove calls so far
  nfaults     \* failed I/O calls that changed something, so far

vars == <<files, pc, log_f, pos, cache, modification_ct, ret, cli, model,
          written, clean, pristine, rewritten, nops, nfaults>>

engine == [files |-> files, log_f |-> log_f, pos |-> pos, cache |-> cache,
           ct |-> modification_ct]

Ret(op, key, val, res, rewrite) ==
  [op |-> op, key |-> key, val |-> val, res |-> res, rewrite |-> rewrite]

\* A line of output: the format string and its arguments.
Line(fmt, args) == [fmt |-> fmt, args |-> args]

CliIdle ==
  [ran |-> FALSE, cmd |-> "", key |-> <<>>, stdout |-> <<>>, stderr |-> <<>>,
   exit |-> 0]

\* The log a session of n successful sets of the key "a" leaves behind
\* (values alternating "1", "22").
PriorValue(i) == IF i % 2 = 1 THEN <<49>> ELSE <<50, 50>>
RECURSIVE PriorLog(_)
PriorLog(n) ==
  IF n = 0 THEN <<>>
  ELSE PriorLog(n - 1) \o Encode(SetEntry(<<97>>, PriorValue(n)))

\* The numbers of records of the logs the behaviours start from: up to one
\* more than the threshold allows a session to leave without compacting
\* (a process killed between the append and maybe_compact leaves that one).
PriorLens ==
  (COMPACT_MODIFICATION_CT + 2 - PriorWindow)..(COMPACT_MODIFICATION_CT + 1)

Init ==
  /\ \/ /\ files = [n \in {} |-> <<>>]
        /\ model = [k \in {} |-> <<>>]
        /\ written = [k \in {} |-> <<>>]
     \/ \E n \in PriorLens :
          /\ files = [f \in {DB} |-> PriorLog(n)]
          /\ model = [k \in {<<97>>} |-> PriorValue(n)]
          /\ written = [k \in {<<97>>} |-> PriorValue(n)]
  /\ pc = "closed"
  /\ log_f = DB
  /\ pos = 0
  /\ cache = NoCache
  /\ modification_ct = 0
  /\ ret = Ret("none", <<>>, <<>>, "Ok", "none")
  /\ cli = CliIdle
  /\ clean = TRUE
  /\ pristine = TRUE
  /\ rewritten = FALSE
  /\ nops = 0
  /\ nfaults = 0

\* ------------------------------------------------------- the calls' bodies

\* The engine fields while no engine exists.
NoEngine(fs) == [files |-> fs, log_f |-> DB, pos |-> 0, cache |-> NoCache, ct |-> 0]

\* What the recovery loop of open finds in the directory fs.
Recovered(fs) == RecoverFrom(Created(fs, DB)[DB], 0, NoCache, 0)

\* The end of open: m is what maybe_compact returned.
OpenCompacted(m) ==
  IF m.res # "Ok"
  THEN [eng |-> NoEngine(m.eng.files), res |-> m.res, rewrite |-> m.rewrite]
  ELSE m

\* open once the recovery loop has ended as r, created being the directory.
OpenRecovered(created, r, order, fault, mode) ==
  IF r.res # "Ok"
  THEN [eng |-> NoEngine(created), res |-> r.res, rewrite |-> "none"]
  ELSE OpenCompacted(MaybeCompact([files |-> created, log_f |-> DB,
                                   pos |-> r.pos, cache |-> r.cache,
                                   ct |-> r.ct],
                                  order, fault, mode))

\* open on the directory fs: [eng, res, rewrite].  res = "Ok" returns the
\* engine eng; otherwise only eng.files (the directory) remains.
KvStoreOpen(fs, order, fault, mode) ==
  IF fault = "openlog"
  THEN [eng |-> NoEngine(fs), res |-> "OpenLog", rewrite |-> "none"]
  ELSE OpenRecovered(Created(fs, DB), Recovered(fs), order, fault, mode)

\* self.log_f.seek(SeekFrom::End(0)): the handle at the end of its file.
SeekEnd(e) == [e EXCEPT !.pos = Len(e.files[e.log_f])]

\* A write of data through the handle, at the handle's position.
Written(e, data) ==
  [e EXCEPT !.files[e.log_f] = WriteAt(@, e.pos, data),
            !.pos = e.pos + Len(data)]

\* Appended with a bug: the write goes where the last read left the handle.
Appended_NoSeek(e, data) == Written(e, data)

\* The engine e after set or remove has sought the end of the log and
\* written data there.
Appended(e, data) == Written(SeekEnd(e), data)

\* KvStoreSet with a bug: every set counts as a modification, also one that
\* introduces a new key.
KvStoreSet_CountsNewKey(e, key, value, order, fault, mode) ==
  IF fault = "seek"
  THEN [eng |-> e, res |-> "GetPosition", rewrite |-> "none"]
  ELSE IF fault = "append"
  THEN [eng |-> Appended([e EXCEPT
                            !.cache = Insert(@, key, Len(e.files[e.log_f])),
                            !.ct = @ + 1],
                         Cut(Encode(SetEntry(key, value)), mode)),
        res |-> "LogAppendSet", rewrite |-> "none"]
  ELSE MaybeCompact(
         Appended([e EXCEPT
                     !.cache = Insert(@, key, Len(e.files[e.log_f])),
                     !.ct = @ + 1],
                  Encode(SetEntry(key, value))),
         order, fault, mode)

\* KvStoreSet with a bug: set does not call maybe_compact.
KvStoreSet_SkipsCompact(e, key, value, order, fault, mode) ==
  IF fault = "seek"
  THEN [eng |-> e, res |-> "GetPosition", rewrite |-> "none"]
  ELSE IF fault = "append"
  THEN [eng |-> Appended([e EXCEPT
                            !.cache = Insert(@, key, Len(e.files[e.log_f])),
                            !.ct = IF key \in DOMAIN e.cache THEN @ + 1 ELSE @],
                         Cut(Encode(SetEntry(key, value)), mode)),
        res |-> "LogAppendSet", rewrite |-> "none"]
  ELSE [eng |-> Appended([e EXCEPT
                            !.cache = Insert(@, key, Len(e.files[e.log_f])),
                            !.ct = IF key \in DOMAIN e.cache THEN @ + 1 ELSE @],
                         Encode(SetEntry(key, value))),
        res |-> "Ok", rewrite |-> "none"]

\* set(key, value) on the engine e: [eng, res, rewrite].
KvStoreSet(e, key, value, order, fault, mode) ==
  IF fault = "seek"
  THEN [eng |-> e, res |-> "GetPosition", rewrite |-> "none"]
  ELSE IF fault = "append"
  THEN [eng |-> Appended([e EXCEPT
                            !.cache = Insert(@, key, Len(e.files[e.log_f])),
                            !.ct = IF key \in DOMAIN e.cache THEN @ + 1 ELSE @],
                         Cut(Encode(SetEntry(key, value)), mode)),
        res |-> "LogAppendSet", rewrite |-> "none"]
  ELSE MaybeCompact(
         Appended([e EXCEPT
                     !.cache = Insert(@, key, Len(e.files[e.log_f])),
                     !.ct = IF key \in DOMAIN e.cache THEN @ + 1 ELSE @],
                  Encode(SetEntry(key, value))),
         order, fault, mode)

\* KvStoreRemove with a bug: the counter is incremented before the key is
\* looked up, so a remove of a missing key counts as a modification.
KvStoreRemove_CountsMiss(e, key, order, fault, mode) ==
  IF key \notin DOMAIN e.cache
  THEN [eng |-> [e EXCEPT !.ct = @ + 1], res |-> "RemoveNonexistentKey",
        rewrite |-> "none"]
  ELSE IF fault = "seek"
  THEN [eng |-> [e EXCEPT !.cache = Delete(@, key), !.ct = @ + 1],
        res |-> "GetPosition", rewrite |-> "none"]
  ELSE IF fault = "append"
  THEN [eng |-> Appended([e EXCEPT !.cache = Delete(@, key), !.ct = @ + 1],
                         Cut(Encode(RemoveEntry(key)), mode)),
        res |-> "LogAppendRemove", rewrite |-> "none"]
  ELSE MaybeCompact(
         Appended([e EXCEPT !.cache = Delete(@, key), !.ct = @ + 1],
                  Encode(RemoveEntry(key))),
         order, fault, mode)

\* remove(key) on the engine e: [eng, res, rewrite].
KvStoreRemove(e, key, order, fault, mode) ==
  IF key \notin DOMAIN e.cache
  THEN [eng |-> e, res |-> "RemoveNonexistentKey", rewrite |-> "none"]
  ELSE IF fault = "seek"
  THEN [eng |-> [e EXCEPT !.cache = Delete(@, key), !.ct = @ + 1],
        res |-> "GetPosition", rewrite |-> "none"]
  ELSE IF fault = "append"
  THEN [eng |-> Appended([e EXCEPT !.cache = Delete(@, key), !.ct = @ + 1],
                         Cut(Encode(RemoveEntry(key)), mode)),
        res |-> "LogAppendRemove", rewrite |-> "none"]
  ELSE MaybeCompact(
         Appended([e EXCEPT !.cache = Delete(@, key), !.ct = @ + 1],
                  Encode(RemoveEntry(key))),
         order, fault, mode)

\* The error a failing I/O call of kind fault surfaces as in the call op.
FaultErr(op, fault) ==
  CASE fault = "openlog" -> "OpenLog"
    [] fault = "open" -> "OpenLog"
    [] fault = "seek" -> "GetPosition"
    [] fault = "append" -> IF op = "set" THEN "LogAppendSet" ELSE "LogAppendRemove"
    [] fault = "flush" -> "CompactionFlushFailed"
    [] fault = "sync" -> "CompactionSyncFailed"
    [] fault = "rename" -> "CompactionRenameFailed"
    [] OTHER -> "Ok"

\* The ways the I/O of a call may go: no fault, or (while the behaviour has
\* faults left) one failing call; only a failing write has a cut mode.
Faults(kinds) ==
  {<<"none", "nothing">>}
    \cup (IF nfaults < MaxFaults
          THEN {<<f, m>> \in kinds \X CutModes :
                  m # "nothing" => f \in {"append", "flush"}}
          ELSE {})

\* The iteration orders and the compaction faults that matter to a call
\* whose maybe_compact sees the counter at ct and the live keys S: none
\* below the threshold, where maybe_compact returns at once.
OrdersAt(ct, S) == IF ct < COMPACT_MODIFICATION_CT THEN {<<>>} ELSE Orders(S)
CompactFaultsAt(ct) == IF ct < COMPACT_MODIFICATION_CT THEN {} ELSE CompactFaults

\* The counter after set(key, _) and after a successful lookup in remove.
CtAfterSet(key) == IF key \in DOMAIN cache THEN modification_ct + 1 ELSE modification_ct
CtAfterRemove == modification_ct + 1

\* The map the engine e shows through get.
Observed(e) ==
  [k \in {x \in DOMAIN e.cache : Lookup(e, x).res = "Some"} |-> Lookup(e, k).val]

SetEngine(e) ==
  /\ files' = e.files
  /\ log_f' = e.log_f
  /\ pos' = e.pos
  /\ cache' = e.cache
  /\ modification_ct' = e.ct

\* ----------------------------------------------------------------- actions

\* The ghost variables after a call that returned r with the I/O fault
\* `fault`, the engine fields having been before: a failed call that changed
\* nothing leaves the history of the directory one of successful calls.
Count(r, before, fault) ==
  /\ nfaults' = IF fault = "none" \/ r.eng = before THEN nfaults ELSE nfaults + 1
  /\ pristine' = (pristine /\ (r.res \in {"Ok", "RemoveNonexistentKey"}
                                \/ r.eng = before))

\* open returned r.
Opened(r, fault) ==
  /\ fault # "none" => r.res = FaultErr("open", fault)
  /\ SetEngine(r.eng)
  /\ pc' = IF r.res = "Ok" THEN "open" ELSE "closed"
  /\ ret' = Ret("open", <<>>, <<>>, r.res, r.rewrite)
  /\ Count(r, NoEngine(files), fault)
  /\ clean' = TRUE
  /\ rewritten' = (r.rewrite = "ok")
  /\ model' = IF r.res = "Ok" /\ ~pristine THEN Observed(r.eng) ELSE model
  /\ written' = IF r.res = "Ok" /\ ~pristine THEN Observed(r.eng) ELSE written

Open ==
  /\ pc = "closed"
  /\ \E order \in OrdersAt(Recovered(files).ct, DOMAIN Recovered(files).cache),
        fm \in Faults({"openlog"} \cup CompactFaultsAt(Recovered(files).ct)) :
       Opened(KvStoreOpen(files, order, fm[1], fm[2]), fm[1])
  /\ cli' = CliIdle
  /\ UNCHANGED nops

\* set(key, value) returned r.
SetReturned(r, key, value, fault) ==
  /\ fault # "none" => r.res = FaultErr("set", fault)
  /\ SetEngine(r.eng)
  /\ ret' = Ret("set", key, value, r.res, r.rewrite)
  /\ Count(r, engine, fault)
  /\ clean' = (clean /\ r.res = "Ok")
  /\ rewritten' = (rewritten \/ r.rewrite = "ok")
  /\ model' = IF r.res = "Ok" \/ r.rewrite = "failed"
              THEN Insert(model, key, value) ELSE model
  /\ written' = IF r.res = "Ok" THEN Insert(written, key, value)
                ELSE Delete(written, key)

\* One call of set(key, value).
SetCall(key, value) ==
  /\ pc = "open"
  /\ \E order \in OrdersAt(CtAfterSet(key), DOMAIN cache \cup {key}),
        fm \in Faults({"seek", "append"} \cup CompactFaultsAt(CtAfterSet(key))) :
       SetReturned(KvStoreSet(engine, key, value, order, fm[1], fm[2]),
                   key, value, fm[1])
  /\ nops' = nops + 1
  /\ UNCHANGED <<pc, cli>>

\* A set call, while the behaviour has calls left.
Set(key, value) == nops < MaxOps /\ SetCall(key, value)

\* remove(key) returned r.
RemoveReturned(r, key, fault) ==
  /\ fault # "none" => r.res = FaultErr("remove", fault)
  /\ SetEngine(r.eng)
  /\ ret' = Ret("remove", key, <<>>, r.res, r.rewrite)
  /\ Count(r, engine, fault)
  /\ clean' = (clean /\ r.res \in {"Ok", "RemoveNonexistentKey"})
  /\ rewritten' = (rewritten \/ r.rewrite = "ok")
  /\ model' = IF r.res = "Ok" \/ r.rewrite = "failed"
              THEN Delete(model, key) ELSE model
  /\ written' = Delete(written, key)
  /\ nops' = IF r.res = "RemoveNonexistentKey" THEN nops ELSE nops + 1

Remove(key) ==
  /\ pc = "open"
  /\ nops < MaxOps
  /\ \E order \in OrdersAt(CtAfterRemove, DOMAIN cache \ {key}),
        fm \in Faults({"seek", "append"} \cup CompactFaultsAt(CtAfterRemove)) :
       RemoveReturned(KvStoreRemove(engine, key, order, fm[1], fm[2]),
                      key, fm[1])
  /\ UNCHANGED <<pc, cli>>

\* get(key) returned r.
GetReturned(r, key) ==
  /\ pos' = r.pos
  /\ ret' = Ret("get", key, r.val, r.res, "none")
  /\ clean' = (clean /\ r.res \in {"Some", "None"})

\* Get with a bug: a read counts as a modification.
Get_CountsRead(key) ==
  /\ pc = "open"
  /\ GetReturned(Lookup(engine, key), key)
  /\ modification_ct' = modification_ct + 1
  /\ UNCHANGED <<files, pc, log_f, cache, cli, model, written, pristine,
                 rewritten, nops, nfaults>>

Get(key) ==
  /\ pc = "open"
  /\ GetReturned(Lookup(engine, key), key)
  /\ UNCHANGED <<files, pc, log_f, cache, modification_ct, cli, model,
                 written, pristine, rewritten, nops, nfaults>>

\* The engine goes out of scope: the handle is closed.
Drop ==
  /\ pc = "open"
  /\ pc' = "closed"
  /\ SetEngine(NoEngine(files))
  /\ ret' = Ret("drop", <<>>, <<>>, "Ok", "none")
  /\ UNCHANGED <<cli, model, written, clean, pristine, rewritten, nops,
                 nfaults>>

\* The store of the driver: KvStore::default(), in memory and empty in every
\* run (main calls no open).
CliStore == [k \in {} |-> <<>>]

\* main with the subcommand cmd and its arguments: what the run prints and
\* its exit status (a returned Err exits with 1, a panic with 101).
MainRun(cmd, key, value) ==
  LET kvs == CliStore
  IN CASE cmd = "set" ->
            [ran |-> TRUE, cmd |-> cmd, key |-> key,
             stdout |-> <<Line("set: {:?} => {:?}", <<key, value>>)>>,
             stderr |-> <<>>, exit |-> 0]
       [] cmd = "get" ->
            IF key \notin DOMAIN kvs
            THEN [ran |-> TRUE, cmd |-> cmd, key |-> key, stdout |-> <<>>,
                  stderr |-> <<Line("key nonexistent: {:?}", <<key>>),
                               Line("Error: {:?}", <<"no such key">>)>>,
                  exit |-> 1]
            ELSE [ran |-> TRUE, cmd |-> cmd, key |-> key,
                  stdout |-> <<Line("{}", <<kvs[key]>>)>>,
                  stderr |-> <<>>, exit |-> 0]
       [] cmd = "rm" ->
            [ran |-> TRUE, cmd |-> cmd, key |-> key,
             stdout |-> <<Line("remove: {:?}", <<key>>)>>,
             stderr |-> <<>>, exit |-> 0]
       [] OTHER ->
            [ran |-> TRUE, cmd |-> cmd, key |-> <<>>, stdout |-> <<>>,
             stderr |-> <<Line("unknown subcommand: {}", <<cmd>>)>>,
             exit |-> 101]

\* One run of the command-line driver, a process of its own whose store is
\* in memory: it touches no file.  The runs come before the first call on
\* the library.
Main(cmd, key, value) ==
  /\ pc = "closed"
  /\ ret.op = "none"
  /\ cli' = MainRun(cmd, key, value)
  /\ UNCHANGED <<files, pc, log_f, pos, cache, modification_ct, ret, model,
                 written, clean, pristine, rewritten, nops, nfaults>>

Next ==
  \/ Open
  \/ \E k \in Keys, v \in Values : Set(k, v)
  \/ \E k \in Keys : Remove(k)
  \/ \E k \in Keys : Get(k)
  \/ Drop
  \/ \E c \in {"set", "get", "rm", ""}, k \in Keys, v \in Values : Main(c, k, v)

Spec == Init /\ [][Next]_vars

\* ------------------------------------------------------------------ claims

\* The keys a claim ranges over: the keys of the calls, and whatever keys
\* the index or the reference map hold.
AllKeys == Keys \cup DOMAIN cache \cup DOMAIN model

\* What get(k) returns now, and what the reference map says it returns.
Got(k) == [res |-> Lookup(engine, k).res, val |-> Lookup(engine, k).val]
Expected(k) ==
  IF k \in DOMAIN model THEN [res |-> "Some", val |-> model[k]]
  ELSE [res |-> "None", val |-> <<>>]

\* The index entry of k points at the first byte of a Set record for k in
\* the file the engine reads.
PointsAtOwnSet(e, k) ==
  /\ Decode(e.files[e.log_f], e.cache[k]).kind = "Set"
  /\ Decode(e.files[e.log_f], e.cache[k]).key = k

\* C1: after a set(k, v) that returned Ok, get(k) returns Some(v) until the
\* next set or remove call on k, whatever gets, set/remove calls on other
\* keys and compactions come in between (written holds exactly those k, v).
C1_ReadYourWrites ==
  pc = "open" =>
    \A k \in DOMAIN written :
      Lookup(engine, k).res = "Some" /\ Lookup(engine, k).val = written[k]

\* C2: after a history of successful calls, the engine dropped and the
\* directory opened again, get(k) equals the reference map for every key:
\* Some(latest value) or None.
C2_DurableAcrossReopen ==
  (pc = "open" /\ ret.op = "open" /\ pristine) =>
    \A k \in AllKeys : Got(k) = Expected(k)

\* C2 witness: a reopen after at least two mutations, with a live key and a
\* key that is not live.
C2_Witness ==
  /\ pc = "open" /\ ret.op = "open" /\ pristine /\ nops >= 2
  /\ DOMAIN model # {} /\ Keys \ DOMAIN model # {}

\* C3: when a set or remove on an engine whose calls have all returned Ok
\* runs a compaction, get(k) afterwards returns, for every key, what the
\* reference map returns, which applies the same calls and knows no
\* compaction.
C3_CompactionTransparent ==
  [][(pc = "open" /\ clean /\ ret'.op \in {"set", "remove"}
        /\ ret'.rewrite # "none") =>
       \A k \in AllKeys' : Got(k)' = Expected(k)']_vars

\* C4: a key that was never set, or whose last set/remove to reach the log
\* was a remove, is not in the index, and get of it returns None, not an
\* error.
C4_MissingKeyIsNone ==
  pc = "open" =>
    \A k \in AllKeys \ DOMAIN model :
      k \notin DOMAIN cache /\ Lookup(engine, k).res = "None"

\* C5: a remove of a key that is not in the index returns
\* RemoveNonexistentKey and changes nothing: the files, the handle, the
\* index and modification_ct are unchanged and no compaction runs.
C5_RemoveMissingChangesNothing ==
  [][(pc = "open" /\ ret'.op = "remove" /\ ret'.key \notin DOMAIN cache) =>
       /\ ret'.res = "RemoveNonexistentKey"
       /\ ret'.rewrite = "none"
       /\ UNCHANGED <<files, pc, log_f, pos, cache, modification_ct>>]_vars

\* C5 witness: a remove that returned RemoveNonexistentKey in an engine whose
\* counter is at the threshold (a compaction would run if it were called).
C5_Witness ==
  /\ pc = "open" /\ ret.op = "remove" /\ ret.res = "RemoveNonexistentKey"
  /\ modification_ct >= COMPACT_MODIFICATION_CT

\* The records of a log from offset off on: [ok, recs]; ok is FALSE when the
\* bytes do not end at a record boundary or hold something that is no record.
RECURSIVE LogRecords(_, _, _)
LogRecordsFrom(bytes, entry, recs) ==
  IF entry.kind \in {"eof", "invalid"} THEN [ok |-> FALSE, recs |-> recs]
  ELSE LogRecords(bytes, entry.next, Append(recs, entry))
LogRecords(bytes, off, recs) ==
  IF off = Len(bytes) THEN [ok |-> TRUE, recs |-> recs]
  ELSE LogRecordsFrom(bytes, Decode(bytes, off), recs)

\* The log is exactly one Set record per key of the index.
OneSetPerLiveKey(log, index) ==
  /\ log.ok
  /\ Len(log.recs) = Cardinality(DOMAIN index)
  /\ \A i \in DOMAIN log.recs :
       log.recs[i].kind = "Set" /\ log.recs[i].key \in DOMAIN index
  /\ \A i, j \in DOMAIN log.recs :
       log.recs[i].key = log.recs[j].key => i = j

\* C6: right after a call in which maybe_compact rewrote the log and
\* returned Ok, kvs.db holds exactly |Index| records, all Set, one per live
\* key, and nothing else.
C6_CompactedLogIsLiveSet ==
  (pc = "open" /\ ret.rewrite = "ok") =>
    OneSetPerLiveKey(LogRecords(files[DB], 0, <<>>), cache)

\* C7: in an engine whose calls have all succeeded, every index entry points
\* at the first byte of a Set record for its own key in the engine's log
\* (so get returns none of LogLookup, LogEntryKindInvalid,
\* LogEntryKeyMismatch).
C7_IndexPointsAtOwnSet ==
  (pc = "open" /\ clean) => \A k \in DOMAIN cache : PointsAtOwnSet(engine, k)

\* C7 witness: a get that found its record, with two live keys in the index,
\* after at least two mutations and a compaction in the same engine.
C7_Witness ==
  /\ pc = "open" /\ clean /\ rewritten /\ Cardinality(DOMAIN cache) = 2
  /\ ret.op = "get" /\ ret.res = "Some" /\ nops >= 2

\* C8: the driver, for an absent key, prints `Key not found` and exits 0 on
\* get, and prints `Key not found` and exits nonzero on rm.
C8_CliKeyNotFound ==
  (cli.ran /\ cli.cmd \in {"get", "rm"} /\ cli.key \notin DOMAIN CliStore) =>
    /\ cli.stdout = <<Line("Key not found", <<>>)>>
    /\ cli.cmd = "get" => cli.exit = 0
    /\ cli.cmd = "rm" => cli.exit # 0

\* C9: a successful compaction resets modification_ct to 0.
C9_CompactionResetsCounter ==
  (pc = "open" /\ ret.rewrite = "ok") => modification_ct = 0

\* C10: when compaction fails at the rename, the engine's handle still
\* refers to the old log and every index entry still points at the Set
\* record of its key in the file the engine reads.
C10_RenameFailureKeepsOldLog ==
  (pc = "open" /\ ret.res = "CompactionRenameFailed") =>
    /\ log_f = DB
    /\ \A k \in DOMAIN cache : PointsAtOwnSet(engine, k)

\* C11: the index invariant holds at the call boundary after a set that
\* returned LogAppendSet: every index entry, the one of the key of the failed
\* set included, points at a Set record for its own key.
C11_FailedAppendKeepsIndexSound ==
  (pc = "open" /\ ret.op = "set" /\ ret.res = "LogAppendSet") =>
    \A k \in DOMAIN cache : PointsAtOwnSet(engine, k)

\* C12: a compaction that returned an error has unlinked kvs.db.tmp before
\* returning.
C12_FailedCompactionUnlinksTmp ==
  ret.rewrite = "failed" => TMP \notin DOMAIN files

\* ------------------------------------------------ recovery of arbitrary logs

\* Number of records of the logs SpecLogs starts from.
MaxRecords == 3

\* The records of those logs.
LogEntries ==
  {SetEntry(k, <<49>>) : k \in Keys} \cup {RemoveEntry(k) : k \in Keys}

\* The logs made of well-formed records, as sequences of records.
Logs == UNION {[1..n -> LogEntries] : n \in 0..MaxRecords}

\* The bytes of a log: its records, encoded one after the other.
RECURSIVE EncodeLog(_, _)
EncodeLog(recs, i) ==
  IF i > Len(recs) THEN <<>> ELSE Encode(recs[i]) \o EncodeLog(recs, i + 1)

\* The map a log stands for, and the number of its records that modify a key
\* that is live when the record is reached: records i.. of recs, after the
\* map m and the count n.
RECURSIVE Replay(_, _, _, _)
Replay(recs, i, m, n) ==
  IF i > Len(recs) THEN [map |-> m, ct |-> n]
  ELSE Replay(recs, i + 1,
              IF recs[i].kind = "Set" THEN Insert(m, recs[i].key, recs[i].value)
              ELSE Delete(m, recs[i].key),
              IF recs[i].key \in DOMAIN m THEN n + 1 ELSE n)

\* A directory whose kvs.db is any log of well-formed records.
InitLogs ==
  /\ \E recs \in Logs :
       /\ files = [f \in {DB} |-> EncodeLog(recs, 1)]
       /\ model = Replay(recs, 1, NoCache, 0).map
       /\ written = Replay(recs, 1, NoCache, 0).map
  /\ pc = "closed"
  /\ log_f = DB
  /\ pos = 0
  /\ cache = NoCache
  /\ modification_ct = 0
  /\ ret = Ret("none", <<>>, <<>>, "Ok", "none")
  /\ cli = CliIdle
  /\ clean = TRUE
  /\ pristine = TRUE
  /\ rewritten = FALSE
  /\ nops = 0
  /\ nfaults = 0

NextLogs ==
  \/ Open
  \/ \E k \in Keys : Get(k)
  \/ Drop

SpecLogs == InitLogs /\ [][NextLogs]_vars

\* C13: when open succeeds on a log of well-formed records, modification_ct
\* is the number of Set records whose key was already live plus the number of
\* Remove records whose key was live when the record was replayed.
C13_RecoveryCountsLiveOnly ==
  [][(pc = "closed" /\ ret'.op = "open" /\ ret'.res = "Ok"
        /\ DB \in DOMAIN files /\ LogRecords(files[DB], 0, <<>>).ok) =>
       modification_ct' =
         Replay(LogRecords(files[DB], 0, <<>>).recs, 1, NoCache, 0).ct]_vars

BeforeCompact(op, key, value) ==
  CASE op = "set" ->
         [ct |-> CtAfterSet(key),
          files |-> [files EXCEPT ![log_f] = @ \o Encode(SetEntry(key, value))],
          cache |-> Insert(cache, key, Len(files[log_f]))]
    [] op = "remove" ->
         [ct |-> CtAfterRemove,
          files |-> [files EXCEPT ![log_f] = @ \o Encode(RemoveEntry(key))],
          cache |-> Delete(cache, key)]
    [] OTHER ->
         [ct |-> Recovered(files).ct, files |-> Created(files, DB),
          cache |-> Recovered(files).cache]

\* C15: in every open, set and remove that reaches its call of maybe_compact
\* (it returned Ok, or an error of the rewrite), the rewrite runs exactly when
\* modification_ct >= 20 at that moment; below the threshold the directory
\* (no kvs.db.tmp created), the handle, the index and the counter are what
\* the call had made of them before maybe_compact.
C15_CompactsExactlyAtThreshold ==
  [][(ret'.op \in {"open", "set", "remove"}
        /\ (ret'.res = "Ok" \/ ret'.rewrite # "none")) =>
       /\ ret'.rewrite # "none" <=>
            BeforeCompact(ret'.op, ret'.key, ret'.val).ct >= COMPACT_MODIFICATION_CT
       /\ ret'.rewrite = "none" =>
            /\ files' = BeforeCompact(ret'.op, ret'.key, ret'.val).files
            /\ cache' = BeforeCompact(ret'.op, ret'.key, ret'.val).cache
            /\ modification_ct' = BeforeCompact(ret'.op, ret'.key, ret'.val).ct
            /\ log_f' = log_f]_vars

\* C15 witness: a set has returned Ok one below the threshold, without a
\* rewrite and with no kvs.db.tmp in the directory.
C15_Witness ==
  /\ pc = "open" /\ ret.op = "set" /\ ret.res = "Ok" /\ ret.rewrite = "none"
  /\ modification_ct = COMPACT_MODIFICATION_CT - 1
  /\ TMP \notin DOMAIN files

\* C16: a get, whatever it returns, changes at most the file position of the
\* log handle: the files, the file the handle refers to, the index and
\* modification_ct are unchanged, and no compaction runs.
C16_GetChangesOnlyPosition ==
  [][(pc = "open" /\ ret'.op = "get") =>
       /\ ret'.rewrite = "none"
       /\ UNCHANGED <<files, pc, log_f, cache, modification_ct>>]_vars

\* C16 witness: a get has returned an error in an engine whose counter is at
\* the threshold (a compaction would run if maybe_compact were called).
C16_Witness ==
  /\ pc = "open" /\ ret.op = "get" /\ ret.res \notin {"Some", "None"}
  /\ modification_ct >= COMPACT_MODIFICATION_CT

\* ------------------------------------------- a log longer than the buffer

\* A value as long as the buffer of the BufReader.
BigValue == [i \in 1..BUF_CAPACITY |-> 50]

\* A directory whose kvs.db holds Set{a, "1"} and Set{b, BigValue}: a read of
\* the first record fills the buffer and leaves the handle BUF_CAPACITY bytes
\* into the file, before its end.
InitLong ==
  /\ files = [f \in {DB} |-> Encode(SetEntry(<<97>>, <<49>>))
                               \o Encode(SetEntry(<<98>>, BigValue))]
  /\ model = (<<97>> :> <<49>>) @@ (<<98>> :> BigValue)
  /\ written = (<<97>> :> <<49>>) @@ (<<98>> :> BigValue)
  /\ pc = "closed"
  /\ log_f = DB
  /\ pos = 0
  /\ cache = NoCache
  /\ modification_ct = 0
  /\ ret = Ret("none", <<>>, <<>>, "Ok", "none")
  /\ cli = CliIdle
  /\ clean = TRUE
  /\ pristine = TRUE
  /\ rewritten = FALSE
  /\ nops = 0
  /\ nfaults = 0

SpecLong == InitLong /\ [][Next]_vars

\* b is a prefix of a.
IsPrefix(b, a) == Len(b) <= Len(a) /\ SubSeq(a, 1, Len(b)) = b

\* C17: in a set or remove in which no compaction runs, the log before the
\* call is a prefix of the log after it; when the call returns Ok the log
\* after it is the log before it followed by the call's record, and the
\* offset a set stores in the index is the first byte of that record;
\* wherever the reads before the call have left the handle.
C17_AppendOnly ==
  [][(pc = "open" /\ ret'.op \in {"set", "remove"} /\ ret'.rewrite = "none") =>
       /\ IsPrefix(files[log_f], files'[log_f])
       /\ ret'.res = "Ok" =>
            /\ files'[log_f] =
                 files[log_f] \o Encode(IF ret'.op = "set"
                                        THEN SetEntry(ret'.key, ret'.val)
                                        ELSE RemoveEntry(ret'.key))
            /\ ret'.op = "set" =>
                 /\ cache'[ret'.key] = Len(files[log_f])
                 /\ PointsAtOwnSet(engine', ret'.key)]_vars

\* C17 witness: a get of the first record has left the handle in the middle
\* of a log to which a set or remove has appended before.
C17_Witness ==
  /\ pc = "open" /\ ret.op = "get" /\ ret.res = "Some" /\ clean /\ nops >= 1
  /\ pos < Len(files[log_f])
  /\ Len(files[log_f]) > Len(Encode(SetEntry(<<98>>, BigValue))) + 14

\* ------------------------------------------ a log that a crash has cut short

\* The record a crash has cut short, and what it left of it: a nonempty
\* proper prefix.
CutRecord == Encode(SetEntry(<<98>>, <<50, 50>>))
PartialTails == {SubSeq(CutRecord, 1, n) : n \in 1..(Len(CutRecord) - 1)}

\* A directory whose kvs.db holds Set{a, "1"} and then a partial record; no
\* I/O call fails in the behaviours that start here.
InitTail ==
  /\ \E tail \in PartialTails :
       files = [f \in {DB} |-> Encode(SetEntry(<<97>>, <<49>>)) \o tail]
  /\ model = (<<97>> :> <<49>>)
  /\ written = (<<97>> :> <<49>>)
  /\ pc = "closed"
  /\ log_f = DB
  /\ pos = 0
  /\ cache = NoCache
  /\ modification_ct = 0
  /\ ret = Ret("none", <<>>, <<>>, "Ok", "none")
  /\ cli = CliIdle
  /\ clean = TRUE
  /\ pristine = TRUE
  /\ rewritten = FALSE
  /\ nops = 0
  /\ nfaults = MaxFaults

SpecTail == InitTail /\ [][Next]_vars

\* C18: on a log that ends in a partial record, every open (the first, and
\* every reopen after successful set/remove calls and a drop) succeeds, and
\* get then returns for every key what the reference map holds: the state of
\* the longest decodable prefix with the successful calls since applied.
C18_PartialTailDiscarded ==
  ret.op = "open" =>
    /\ pc = "open" /\ ret.res = "Ok"
    /\ \A k \in AllKeys : Got(k) = Expected(k)

\* ------------------------------------------------- one key set again and again

\* Number of sets of the key in one behaviour of SpecRepeat.
MaxSets == 26

\* An empty directory; no I/O call fails in the behaviours that start here.
InitRepeat ==
  /\ files = [n \in {} |-> <<>>]
  /\ model = [k \in {} |-> <<>>]
  /\ written = [k \in {} |-> <<>>]
  /\ pc = "closed"
  /\ log_f = DB
  /\ pos = 0
  /\ cache = NoCache
  /\ modification_ct = 0
  /\ ret = Ret("none", <<>>, <<>>, "Ok", "none")
  /\ cli = CliIdle
  /\ clean = TRUE
  /\ pristine = TRUE
  /\ rewritten = FALSE
  /\ nops = 0
  /\ nfaults = MaxFaults

\* The next set of the key "a": the i-th set writes PriorValue(i).
SetAgain == nops < MaxSets /\ SetCall(<<97>>, PriorValue(nops + 1))

NextRepeat ==
  \/ Open
  \/ SetAgain
  \/ Get(<<97>>)
  \/ Drop

SpecRepeat == InitRepeat /\ [][NextRepeat]_vars

\* C19: from an empty directory, after the n-th set of the same key (nops is
\* n) the log is made of at most 1 + 20 records; from n = 25 on the log
\* holds fewer records than sets were made (a compaction has fired); and get
\* of the key returns the last value set.
C19_RepeatedSetStaysBounded ==
  (pc = "open" /\ nops >= 1) =>
    /\ LogRecords(files[DB], 0, <<>>).ok
    /\ Len(LogRecords(files[DB], 0, <<>>).recs) <= 1 + COMPACT_MODIFICATION_CT
    /\ nops >= COMPACT_MODIFICATION_CT + 5 =>
         Len(LogRecords(files[DB], 0, <<>>).recs) < nops
    /\ Got(<<97>>) = [res |-> "Some", val |-> PriorValue(nops)]

\* C19 witness: get has returned the value of the 25th set.
C19_Witness ==
  /\ pc = "open" /\ nops = COMPACT_MODIFICATION_CT + 5
  /\ ret.op = "get" /\ ret.res = "Some" /\ ret.val = PriorValue(nops)

====
